---- MODULE Spec2Model ----
(***************************************************************************)
(* Model of the dad-joke-bot (src/index.js): the history file and the      *)
(* in-memory jokeHistory, getDadJoke's retry loop, postJokeToSlack's join  *)
(* and post races against one timer, and main's startup pass and cron      *)
(* ticks.                                                                  *)
(*                                                                         *)
(* JavaScript values are records [type, val]: a string carries its text in *)
(* val, undefined and null carry "".  jokeHistory is [type, val] with val  *)
(* the sequence of elements when type = "array".                           *)
(***************************************************************************)
EXTENDS Integers, Sequences, FiniteSets, TLC

\* ---------------------------------------------------------------- bounds
\* Number of calls of postJokeToSlack (the startup pass and the cron ticks).
MaxPasses == 3
\* Largest retries argument of a direct call of the exported getDadJoke.
MaxRetries == 3

\* ------------------------------------------------------ program constants
MAX_HISTORY == 20
DEFAULT_RETRIES == 3
SLACK_TIMEOUT_MS == 10000
RETRY_STEP_MS == 1000
RETRY_CAP_MS == 5000

\* ------------------------------------------------------------- JS values
Str(s) == [type |-> "string", val |-> s]
Undefined == [type |-> "undefined", val |-> ""]
Null == [type |-> "null", val |-> ""]
IsString(v) == v.type = "string"

Arr(s) == [type |-> "array", val |-> s]
Obj == [type |-> "object", val |-> <<>>]
NullValue == [type |-> "null", val |-> <<>>]
IsArray(h) == h.type = "array"

Min(a, b) == IF a <= b THEN a ELSE b
Last(s) == s[Len(s)]

FALLBACK_JOKES ==
  << Str("Why don't scientists trust atoms? Because they make up everything!"),
     Str("I told my wife she was drawing her eyebrows too high. She looked surprised."),
     Str("Why did the scarecrow win an award? He was outstanding in his field!"),
     Str("What do you call a fake noodle? An impasta!"),
     Str("I used to hate facial hair, but then it grew on me.") >>

FallbackPool == { FALLBACK_JOKES[i] : i \in 1..Len(FALLBACK_JOKES) }

\* ---------------------------------------------------- the history file
\* Jokes of earlier runs, oldest first: the arrays a history file holds are
\* prefixes of this sequence.
OldJokes ==
  << Str("J01"), Str("J02"), Str("J03"), Str("J04"), Str("J05"), Str("J06"),
     Str("J07"), Str("J08"), Str("J09"), Str("J10"), Str("J11"), Str("J12"),
     Str("J13"), Str("J14"), Str("J15"), Str("J16"), Str("J17"), Str("J18"),
     Str("J19"), Str("J20"), Str("J21") >>

FileLengths == {1, MAX_HISTORY, MAX_HISTORY + 1}

\* A full history as the process writes it when its oldest delivery was a
\* fallback joke: FALLBACK_JOKES[1], then MAX_HISTORY - 1 jokes of the source.
AfterOutage == <<FALLBACK_JOKES[1]>> \o SubSeq(OldJokes, 2, MAX_HISTORY)

\* What the history file can be when the process starts: absent, unreadable,
\* not JSON, or JSON text of some value (an array of strings, an object, null).
HistoryFiles ==
  { [kind |-> "missing", json |-> Arr(<<>>)],
    [kind |-> "unreadable", json |-> Arr(<<>>)],
    [kind |-> "invalid", json |-> Arr(<<>>)],
    [kind |-> "json", json |-> Obj],
    [kind |-> "json", json |-> NullValue],
    [kind |-> "json", json |-> Arr(AfterOutage)] }
  \cup { [kind |-> "json", json |-> Arr(SubSeq(OldJokes, 1, n))] : n \in FileLengths }

\* JSON.stringify of jokeHistory: an undefined element of an array is written
\* as null; strings and null are written as they are.
JSONStringify(h) ==
  IF IsArray(h)
  THEN Arr([i \in 1..Len(h.val) |->
             IF h.val[i].type = "undefined" THEN Null ELSE h.val[i]])
  ELSE h

\* JSON.parse of a file that holds JSON text: the value written.
JSONParse(f) == f.json

\* ------------------------------------------------------------ responses
\* Jokes the content source serves: the oldest joke of the history, a joke
\* never posted before, and a body without the joke field.
ApiJokes == { Str("J01"), Str("Y"), Undefined }

\* offensive field of a body: true, false, or absent.
OffensiveFlags == { "true", "false", "absent" }

\* An outcome of axios.get: a rejection (transport error, timeout, status),
\* a response whose data is null, or a response whose data is an object.
Responses ==
  { [kind |-> "error", joke |-> Undefined, offensive |-> "absent"],
    [kind |-> "nodata", joke |-> Undefined, offensive |-> "absent"] }
  \cup { [kind |-> "body", joke |-> j, offensive |-> o] :
           j \in ApiJokes, o \in OffensiveFlags }

\* ------------------------------------------------------- Slack Web API
\* Time a call of the Slack Web API takes to settle, in ms.
Latencies == { 3000, 6000, 12000 }

\* What a call does by itself: it resolves or rejects after its latency.
SlackCalls == [result : {"ok", "error"}, latency : Latencies]
NoCall == [result |-> "none", latency |-> 0]

Passes == 1..MaxPasses

VARIABLES
  historyFile,   \* the file HISTORY_FILE
  jokeHistory,   \* the module variable jokeHistory
  mainPc,        \* position of main
  isGitHubActions, \* process.env.GITHUB_ACTIONS === 'true'
  cronValid,     \* cron.validate(CRON_SCHEDULE)
  exitCode,      \* argument of process.exit, -1 while the process runs
  pc,            \* position of each call (getDadJoke / postJokeToSlack)
  maxAttempts,   \* getDadJoke: maxAttempts
  attempt,       \* getDadJoke: attempt
  calls,         \* getDadJoke: number of axios.get calls issued
  responses,     \* getDadJoke: outcomes of the axios.get calls, in order
  sleeps,        \* getDadJoke: the waitTime of each sleep, in order
  joke,          \* value returned by getDadJoke
  source,        \* which return produced it: "api" (117) or "fallback" (130)
  joinOutcome,   \* postJokeToSlack: how the first Promise.race settled
  postIssuedAt,  \* postJokeToSlack: ms on timeoutPromise's timer when the post is issued
  postCall,      \* postJokeToSlack: what chat.postMessage does (result, latency)
  postOutcome,   \* postJokeToSlack: how the second Promise.race settled
  saveResult     \* postJokeToSlack: how the writeFileSync of saveHistory ended

fetchVars == <<maxAttempts, attempt, calls, responses, sleeps, joke, source>>
slackVars == <<joinOutcome, postIssuedAt, postCall, postOutcome, saveResult>>
mainVars == <<mainPc, isGitHubActions, cronValid, exitCode>>
vars == <<historyFile, jokeHistory, mainVars, pc, fetchVars, slackVars>>

\* ------------------------------------------------------------ loadHistory
\* src/index.js 29-38
loadHistory(f, h) ==
  IF f.kind = "missing" THEN h
  ELSE IF f.kind = "json" THEN JSONParse(f)
  ELSE Arr(<<>>)

\* ------------------------------------------------------------- getDadJoke
isOffensive_Never(r) == FALSE

\* response.data.offensive || false  (103)
isOffensive(r) == r.offensive = "true"

Includes_Never(h, x) == FALSE

\* jokeHistory.includes(joke) on an array (112)
Includes(h, x) == \E i \in 1..Len(h.val) : h.val[i] = x

LoopContinues_OffByOne(a, m) == a < m

LoopContinues_Always(a, m) == TRUE

\* the loop condition attempt <= maxAttempts (92)
LoopContinues(a, m) == a <= m

\* Math.min(1000 * attempt, 5000) (121)
WaitTime(a) == Min(RETRY_STEP_MS * a, RETRY_CAP_MS)

\* What one iteration of the loop does with the outcome of axios.get:
\* "throw" (caught at 118), "continue" (108, 114) or "return" (117).
\* response.data.joke on null data and jokeHistory.includes on a value that
\* is no array raise a TypeError inside the try.
Iteration(r, h) ==
  IF r.kind = "error" THEN "throw"
  ELSE IF r.kind = "nodata" THEN "throw"
  ELSE IF isOffensive(r) THEN "continue"
  ELSE IF ~IsArray(h) THEN "throw"
  ELSE IF Includes(h, r.joke) THEN "continue"
  ELSE "return"

\* The record a direct caller of getDadJoke keeps of what the content source
\* answered and of the sleeps; the process itself keeps none.
Observe(log, x) == IF mainPc = "library" THEN Append(log, x) ELSE log

\* The loop is entered for the next attempt a, or left for the fallback
\* return (128-130): pc "fetch" with a request in flight, or "fetched".
EnterLoop(p, a) ==
  /\ attempt' = [attempt EXCEPT ![p] = a]
  /\ IF LoopContinues(a, maxAttempts[p])
     THEN /\ pc' = [pc EXCEPT ![p] = "fetch"]
          /\ calls' = [calls EXCEPT ![p] = @ + 1]
          /\ UNCHANGED <<joke, source>>
     ELSE /\ pc' = [pc EXCEPT ![p] = "fetched"]
          /\ \E i \in 1..Len(FALLBACK_JOKES) :
               joke' = [joke EXCEPT ![p] = FALLBACK_JOKES[i]]
          /\ source' = [source EXCEPT ![p] = "fallback"]
          /\ UNCHANGED calls

\* getDadJoke(retries) is called: locals are set, the loop is entered.
CallGetDadJoke(p, retries) ==
  /\ maxAttempts' = [maxAttempts EXCEPT ![p] = retries]
  /\ responses' = [responses EXCEPT ![p] = <<>>]
  /\ sleeps' = [sleeps EXCEPT ![p] = <<>>]
  /\ attempt' = [attempt EXCEPT ![p] = 1]
  /\ IF LoopContinues(1, retries)
     THEN /\ pc' = [pc EXCEPT ![p] = "fetch"]
          /\ calls' = [calls EXCEPT ![p] = 1]
          /\ UNCHANGED <<joke, source>>
     ELSE /\ pc' = [pc EXCEPT ![p] = "fetched"]
          /\ calls' = [calls EXCEPT ![p] = 0]
          /\ \E i \in 1..Len(FALLBACK_JOKES) :
               joke' = [joke EXCEPT ![p] = FALLBACK_JOKES[i]]
          /\ source' = [source EXCEPT ![p] = "fallback"]

\* The axios.get of the current attempt settles with outcome r (94-125).
FetchSettles(p) ==
  /\ pc[p] = "fetch"
  /\ \E r \in Responses :
       /\ responses' = [responses EXCEPT ![p] = Observe(@, r)]
       /\ CASE Iteration(r, jokeHistory) = "return" ->
                 /\ pc' = [pc EXCEPT ![p] = "fetched"]
                 /\ joke' = [joke EXCEPT ![p] = r.joke]
                 /\ source' = [source EXCEPT ![p] = "api"]
                 /\ UNCHANGED <<attempt, calls, sleeps>>
            [] Iteration(r, jokeHistory) = "continue" ->
                 /\ EnterLoop(p, attempt[p] + 1)
                 /\ UNCHANGED sleeps
            [] Iteration(r, jokeHistory) = "throw" ->
                 IF attempt[p] < maxAttempts[p]
                 THEN /\ pc' = [pc EXCEPT ![p] = "sleep"]
                      /\ sleeps' = [sleeps EXCEPT ![p] = Observe(@, WaitTime(attempt[p]))]
                      /\ UNCHANGED <<attempt, calls, joke, source>>
                 ELSE /\ EnterLoop(p, attempt[p] + 1)
                      /\ UNCHANGED sleeps
  /\ UNCHANGED <<maxAttempts, historyFile, jokeHistory, mainVars, slackVars>>

\* The setTimeout of the retry sleep fires (123): next iteration.
SleepEnds(p) ==
  /\ pc[p] = "sleep"
  /\ EnterLoop(p, attempt[p] + 1)
  /\ UNCHANGED <<maxAttempts, responses, sleeps, historyFile, jokeHistory, mainVars, slackVars>>

\* -------------------------------------------------------- postJokeToSlack
Running == exitCode = -1

\* Promise.race([call, timeoutPromise]) (167-170, 176-186): the call was
\* issued when the timer of timeoutPromise stood at issuedAt; the race
\* settles as the call does if the call settles first, and rejects with the
\* timeout if the timer reaches 10000 ms first.  Either wins on a tie.
RaceOutcomes(call, issuedAt) ==
  (IF issuedAt + call.latency <= SLACK_TIMEOUT_MS THEN {call.result} ELSE {})
  \cup (IF issuedAt + call.latency >= SLACK_TIMEOUT_MS THEN {"timeout"} ELSE {})

\* Reading of the timer of timeoutPromise (created at 161, before the join
\* is issued) when the first race has settled and the post is issued.
TimerAtPost(c) == Min(c.latency, SLACK_TIMEOUT_MS)

PushShift_Pop(h, j) ==
  IF Len(h.val) + 1 > MAX_HISTORY THEN h ELSE Arr(Append(h.val, j))

\* jokeHistory.push(joke); if (length > MAX_HISTORY) shift() (189-192)
PushShift(h, j) ==
  IF Len(h.val) + 1 > MAX_HISTORY
  THEN Arr(Tail(Append(h.val, j)))
  ELSE Arr(Append(h.val, j))

Delivered_Always(o, h) == IsArray(h)

\* The second race resolved and push does not raise (176-189).
Delivered(o, h) == o = "ok" /\ IsArray(h)

\* fs.writeFileSync(HISTORY_FILE, JSON.stringify(jokeHistory)) (41-47): the
\* write succeeds, or fails and leaves the file as it was.
SaveResults == { "ok", "failed" }

saveHistory(f, h, res) ==
  IF res = "ok" THEN [kind |-> "json", json |-> JSONStringify(h)] ELSE f

SaveRaises_Propagates(res) == res = "failed"

\* The catch of saveHistory (44-46) logs the error of a failed write: no
\* result of the write raises in the caller.
SaveRaises(res) == FALSE

\* getDadJoke has returned: blocks are built, timeoutPromise is created and
\* conversations.join is issued (138-170).
IssueJoin(p) ==
  /\ Running
  /\ pc[p] = "fetched"
  /\ pc' = [pc EXCEPT ![p] = "join"]
  /\ maxAttempts' = [maxAttempts EXCEPT ![p] = 0]
  /\ attempt' = [attempt EXCEPT ![p] = 0]
  /\ calls' = [calls EXCEPT ![p] = 0]
  /\ UNCHANGED <<responses, sleeps, joke, source, historyFile, jokeHistory,
                 mainVars, slackVars>>

\* The first race settles; whatever its outcome, chat.postMessage is issued
\* (166-186).
JoinSettles(p) ==
  /\ Running
  /\ pc[p] = "join"
  /\ \E c \in SlackCalls : \E o \in RaceOutcomes(c, 0) :
       /\ joinOutcome' = [joinOutcome EXCEPT ![p] = o]
       /\ postIssuedAt' = [postIssuedAt EXCEPT ![p] = TimerAtPost(c)]
  /\ pc' = [pc EXCEPT ![p] = "post"]
  /\ UNCHANGED <<postCall, postOutcome, saveResult, fetchVars, historyFile,
                 jokeHistory, mainVars>>

\* The second race settles (176-200): on success the joke is pushed and the
\* history saved; a rejection, or a TypeError of push on a jokeHistory that
\* is no array, is logged and rethrown.  The call's joke and timer are
\* dropped with its frame; what the post did and how the race and the save
\* ended stay visible until the awaiting caller resumes.
PostSettles(p) ==
  /\ Running
  /\ pc[p] = "post"
  /\ \E c \in SlackCalls : \E o \in RaceOutcomes(c, postIssuedAt[p]) :
       /\ postCall' = [postCall EXCEPT ![p] = c]
       /\ postOutcome' = [postOutcome EXCEPT ![p] = o]
       /\ IF Delivered(o, jokeHistory)
          THEN /\ jokeHistory' = PushShift(jokeHistory, joke[p])
               /\ \E res \in SaveResults :
                    /\ saveResult' = [saveResult EXCEPT ![p] = res]
                    /\ historyFile' = saveHistory(historyFile, jokeHistory', res)
                    /\ pc' = [pc EXCEPT ![p] =
                                IF SaveRaises(res) THEN "failed" ELSE "done"]
          ELSE /\ pc' = [pc EXCEPT ![p] = "failed"]
               /\ UNCHANGED <<jokeHistory, saveResult, historyFile>>
  /\ joke' = [joke EXCEPT ![p] = Undefined]
  /\ source' = [source EXCEPT ![p] = "none"]
  /\ joinOutcome' = [joinOutcome EXCEPT ![p] = "none"]
  /\ postIssuedAt' = [postIssuedAt EXCEPT ![p] = 0]
  /\ UNCHANGED <<maxAttempts, attempt, calls, responses, sleeps, mainVars>>

\* The caller that awaits postJokeToSlack resumes: with the joke ("ok"), or
\* in its catch block ("caught").
Resumed(p) ==
  /\ pc[p] \in {"done", "failed"}
  /\ pc' = [pc EXCEPT ![p] = IF pc[p] = "done" THEN "ok" ELSE "caught"]
  /\ postCall' = [postCall EXCEPT ![p] = NoCall]
  /\ postOutcome' = [postOutcome EXCEPT ![p] = "none"]
  /\ saveResult' = [saveResult EXCEPT ![p] = "none"]
  /\ UNCHANGED <<joinOutcome, postIssuedAt, fetchVars>>

\* ------------------------------------------------------------------- main
\* jokeHistory.length (211) raises a TypeError when jokeHistory is null.
LengthRaises(h) == h.type = "null"

\* main up to the first await (204-225): loadHistory, the number of loaded
\* jokes is logged, the cron expression is validated, and the startup pass
\* is started.  An error raised in main is fatal (250-253): exit(1).
MainStart ==
  /\ Running
  /\ mainPc = "start"
  /\ jokeHistory' = loadHistory(historyFile, jokeHistory)
  /\ IF ~LengthRaises(jokeHistory') /\ cronValid
     THEN /\ mainPc' = "startup"
          /\ CallGetDadJoke(1, DEFAULT_RETRIES)
          /\ UNCHANGED exitCode
     ELSE /\ mainPc' = "exited"
          /\ exitCode' = 1
          /\ UNCHANGED <<pc, fetchVars>>
  /\ UNCHANGED <<historyFile, isGitHubActions, cronValid, slackVars>>

ExitAfterPass_AlwaysOnFailure(gha, ok) ==
  IF ok THEN (IF gha THEN 0 ELSE -1) ELSE 1

\* What main does when the startup pass has ended (226-235): the status it
\* exits with, or -1 when it goes on.
ExitAfterPass(gha, ok) ==
  IF gha THEN (IF ok THEN 0 ELSE 1) ELSE -1

\* The startup pass has ended (226-245): exit in GitHub Actions, with the
\* status of the pass; otherwise the cron job is registered.
MainAfterStartup ==
  /\ Running
  /\ mainPc = "startup"
  /\ Resumed(1)
  /\ exitCode' = ExitAfterPass(isGitHubActions, pc[1] = "done")
  /\ mainPc' = IF exitCode' = -1 THEN "scheduled" ELSE "exited"
  /\ UNCHANGED <<historyFile, jokeHistory, isGitHubActions, cronValid>>

CronRegistered_BeforeAwait(m) == m \in {"startup", "scheduled"}

\* cron.schedule (239) is reached only after the await of the startup pass
\* (225) and its try/catch are over.
CronRegistered(m) == m = "scheduled"

\* A cron tick (239-241): postJokeToSlack is called, whatever earlier calls
\* are doing.
Tick(p) ==
  /\ Running
  /\ CronRegistered(mainPc)
  /\ p > 1
  /\ pc[p] = "idle"
  /\ pc[p - 1] # "idle"
  /\ CallGetDadJoke(p, DEFAULT_RETRIES)
  /\ UNCHANGED <<historyFile, jokeHistory, mainVars, slackVars>>

\* The postJokeToSlack of a tick has ended (241-244): an error is caught
\* and logged by the callback.
TickEnds(p) ==
  /\ Running
  /\ p > 1
  /\ Resumed(p)
  /\ UNCHANGED <<historyFile, jokeHistory, mainVars>>

\* ---------------------------------------- getDadJoke called on its own
\* The exported getDadJoke (257) called directly, after the history was loaded.
DirectCall(p) ==
  /\ pc[p] = "idle"
  /\ \E retries \in 0..MaxRetries : CallGetDadJoke(p, retries)
  /\ UNCHANGED <<historyFile, jokeHistory, mainVars, slackVars>>

InitLocals ==
  /\ pc = [p \in Passes |-> "idle"]
  /\ maxAttempts = [p \in Passes |-> 0]
  /\ attempt = [p \in Passes |-> 0]
  /\ calls = [p \in Passes |-> 0]
  /\ responses = [p \in Passes |-> <<>>]
  /\ sleeps = [p \in Passes |-> <<>>]
  /\ joke = [p \in Passes |-> Undefined]
  /\ source = [p \in Passes |-> "none"]
  /\ joinOutcome = [p \in Passes |-> "none"]
  /\ postIssuedAt = [p \in Passes |-> 0]
  /\ postCall = [p \in Passes |-> NoCall]
  /\ postOutcome = [p \in Passes |-> "none"]
  /\ saveResult = [p \in Passes |-> "none"]

InitFetch ==
  /\ historyFile \in HistoryFiles
  /\ jokeHistory = loadHistory(historyFile, Arr(<<>>))
  /\ mainPc = "library"
  /\ isGitHubActions = FALSE
  /\ cronValid = TRUE
  /\ exitCode = -1
  /\ InitLocals

NextFetch ==
  \/ DirectCall(1)
  \/ FetchSettles(1)
  \/ SleepEnds(1)

SpecFetch == InitFetch /\ [][NextFetch]_vars

\* ------------------------------------------------ claims about getDadJoke
\* The vocabulary of the claims, stated on the values themselves.
LedgerItems == IF IsArray(jokeHistory)
               THEN { jokeHistory.val[i] : i \in 1..Len(jokeHistory.val) }
               ELSE {}
Filtered(r) == r.kind = "body" /\ r.offensive = "true"
Duplicate(r) == r.kind = "body" /\ r.joke \in LedgerItems
TransportFailure(r) == r.kind \in {"error", "nodata"}
Acceptable(r) == r.kind = "body" /\ r.offensive # "true" /\ r.joke \notin LedgerItems
Returned(p) == pc[p] = "fetched"

\* C1: getDadJoke always returns an Item, a text string that is the text of
\* a received response or a member of the Fallback Pool.
C1_AlwaysReturnsItem ==
  \A p \in Passes :
    Returned(p) =>
      /\ IsString(joke[p])
      /\ \/ joke[p] \in FallbackPool
         \/ \E i \in 1..Len(responses[p]) :
              responses[p][i].kind = "body" /\ responses[p][i].joke = joke[p]

\* C2: a result returned as successful never comes from a response whose
\* offensive flag is true, and every response, an offensive one included,
\* uses up exactly one attempt and one request.
C2_OffensiveNeverReturned ==
  \A p \in Passes :
    /\ (Returned(p) /\ source[p] = "api") =>
         (Len(responses[p]) >= 1 /\ ~Filtered(Last(responses[p])))
    /\ pc[p] = "fetch" =>
         (attempt[p] = Len(responses[p]) + 1 /\ calls[p] = attempt[p])

\* C2 witness: a successful return after an offensive response was skipped.
C2_Witness ==
  \E p \in Passes :
    /\ Returned(p) /\ source[p] = "api"
    /\ \E i \in 1..(Len(responses[p]) - 1) : Filtered(responses[p][i])

\* C3: a result returned as successful is never a text of the History Ledger.
C3_DuplicateNeverReturned ==
  \A p \in Passes :
    (Returned(p) /\ source[p] = "api") => joke[p] \notin LedgerItems

\* C3 witness: a successful return after a response with a text of the
\* Ledger was skipped.
C3_Witness ==
  \E p \in Passes :
    /\ Returned(p) /\ source[p] = "api"
    /\ \E i \in 1..(Len(responses[p]) - 1) :
         ~Filtered(responses[p][i]) /\ Duplicate(responses[p][i])

\* C4: when every attempt is filtered, a duplicate or a transport failure,
\* exactly maxAttempts requests are issued and a member of the Fallback Pool
\* is returned.
C4_ExhaustedGivesFallback ==
  \A p \in Passes :
    (/\ Returned(p)
     /\ \A i \in 1..Len(responses[p]) :
          \/ Filtered(responses[p][i])
          \/ Duplicate(responses[p][i])
          \/ TransportFailure(responses[p][i]))
    => /\ calls[p] = maxAttempts[p]
       /\ Len(responses[p]) = maxAttempts[p]
       /\ source[p] = "fallback"
       /\ joke[p] \in FallbackPool

\* C4 witness: three attempts, one of each kind, end in a fallback joke.
C4_Witness ==
  \E p \in Passes :
    /\ Returned(p) /\ source[p] = "fallback" /\ maxAttempts[p] = 3
    /\ calls[p] = 3
    /\ TransportFailure(responses[p][1])
    /\ Filtered(responses[p][2])
    /\ ~Filtered(responses[p][3]) /\ Duplicate(responses[p][3])

\* C5: getDadJoke returns the text of the first response that is not
\* offensive and not in the Ledger, and issues no request after it.
C5_FirstAcceptableReturned ==
  \A p \in Passes :
    /\ pc[p] \in {"fetch", "sleep"} =>
         \A i \in 1..Len(responses[p]) : ~Acceptable(responses[p][i])
    /\ (Returned(p) /\ \E i \in 1..Len(responses[p]) : Acceptable(responses[p][i])) =>
         /\ source[p] = "api"
         /\ Acceptable(Last(responses[p]))
         /\ joke[p] = Last(responses[p]).joke
         /\ \A i \in 1..(Len(responses[p]) - 1) : ~Acceptable(responses[p][i])
         /\ calls[p] = Len(responses[p])

\* ------------------------------------------- claims about postJokeToSlack
\* The second race of call p settles in this step.
PostSettled(p) == pc[p] = "post" /\ pc'[p] # "post"

\* C6: a failed join never makes the pass fail: when the join failed and
\* the post call itself succeeds within its 10 seconds, postJokeToSlack
\* succeeds and the item is the last of the Ledger.  (Stated for a
\* jokeHistory that is an array.)
C6_FailedJoinNeverFailsPass ==
  [][\A p \in Passes :
       (/\ PostSettled(p)
        /\ IsArray(jokeHistory)
        /\ joinOutcome[p] \in {"error", "timeout"}
        /\ postCall'[p].result = "ok"
        /\ postCall'[p].latency < SLACK_TIMEOUT_MS)
       => /\ pc'[p] = "done"
          /\ Last(jokeHistory'.val) = joke[p]]_vars

\* C7: the post fails by timeout only if the post call itself has been
\* outstanding for 10 seconds.
C7_PostHasItsOwnDeadline ==
  \A p \in Passes :
    (pc[p] = "failed" /\ postOutcome[p] = "timeout")
      => postCall[p].latency >= SLACK_TIMEOUT_MS

\* C8: when the post fails (error or timeout) postJokeToSlack raises and
\* leaves jokeHistory and the history file unchanged; after startup the two
\* change only in a step in which a post is reported successful.
C8_NoAppendOnPostFailure ==
  [][/\ \A p \in Passes :
          (PostSettled(p) /\ postOutcome'[p] \in {"error", "timeout"})
          => /\ pc'[p] = "failed"
             /\ jokeHistory' = jokeHistory
             /\ historyFile' = historyFile
     /\ ((mainPc # "start" /\ jokeHistory' # jokeHistory) \/ historyFile' # historyFile)
          => \E p \in Passes :
               /\ PostSettled(p)
               /\ postOutcome'[p] = "ok"
               /\ postCall'[p].result = "ok"]_vars

\* C8 witness: a pass has failed on a post that timed out, and another on a
\* post that was answered with an error, with a Ledger that holds items.
C8_Witness ==
  /\ IsArray(jokeHistory) /\ Len(jokeHistory.val) > 0
  /\ \E p, q \in Passes :
       /\ pc[p] = "failed" /\ postOutcome[p] = "timeout"
       /\ pc[q] = "failed" /\ postOutcome[q] = "error"

\* C9: after a pass whose post succeeded the delivered item is the last of
\* jokeHistory and, when the save did not fail, the file holds jokeHistory:
\* loading it again yields jokeHistory as it was saved.
C9_SavedLedgerRoundTrips ==
  [][\A p \in Passes :
       (PostSettled(p) /\ pc'[p] = "done")
       => /\ Last(jokeHistory'.val) = joke[p]
          /\ saveResult'[p] = "ok" =>
               loadHistory(historyFile', Arr(<<>>)) = jokeHistory']_vars

\* C10: once loaded, the History Ledger never holds more than MAX_HISTORY
\* items.
C10_LedgerBounded ==
  (mainPc # "start" /\ IsArray(jokeHistory)) => Len(jokeHistory.val) <= MAX_HISTORY

\* ------------------------------------------------- claims about the Ledger
\* Call p appends its joke in this step.
Appended(p) == PostSettled(p) /\ pc'[p] = "done"
Texts(q) == { q[i] : i \in 1..Len(q) }

\* C11 as stated: appending to a Ledger of MAX_HISTORY items leaves
\* MAX_HISTORY items, the oldest prior entry is absent, the other prior
\* entries keep their order and the new item is last.
C11_OldestAbsentAfterEvict ==
  [][\A p \in Passes :
       (Appended(p) /\ Len(jokeHistory.val) = MAX_HISTORY)
       => /\ Len(jokeHistory'.val) = MAX_HISTORY
          /\ jokeHistory.val[1] \notin Texts(jokeHistory'.val)
          /\ \A i \in 1..(MAX_HISTORY - 1) : jokeHistory'.val[i] = jokeHistory.val[i + 1]
          /\ jokeHistory'.val[MAX_HISTORY] = joke[p]]_vars

\* C11 amended: the entry at the head is evicted; its text is absent unless
\* it is also the new item or occurs again among the other prior entries.
C11_FifoEviction ==
  [][\A p \in Passes :
       (Appended(p) /\ Len(jokeHistory.val) = MAX_HISTORY)
       => /\ Len(jokeHistory'.val) = MAX_HISTORY
          /\ \A i \in 1..(MAX_HISTORY - 1) : jokeHistory'.val[i] = jokeHistory.val[i + 1]
          /\ jokeHistory'.val[MAX_HISTORY] = joke[p]
          /\ jokeHistory.val[1] \notin (Texts(Tail(jokeHistory.val)) \cup {joke[p]})
               => jokeHistory.val[1] \notin Texts(jokeHistory'.val)]_vars

\* C11 witness: the startup pass delivered Y to the full history J01..J20:
\* J01 is gone, J02 is the oldest, Y the newest.
C11_Witness ==
  /\ pc[1] = "done"
  /\ Len(jokeHistory.val) = MAX_HISTORY
  /\ jokeHistory.val[1] = OldJokes[2]
  /\ jokeHistory.val[MAX_HISTORY] = Str("Y")

\* C12: loading the history is never fatal: whatever the history file is,
\* main (with a valid cron expression) goes on to the startup pass, with a
\* Ledger that is the file's sequence of strings or empty.
C12_LoadNeverFatal ==
  [][(mainPc = "start" /\ mainPc' # "start" /\ cronValid)
     => /\ mainPc' = "startup"
        /\ exitCode' = -1
        /\ pc'[1] = "fetch"
        /\ \/ jokeHistory' = Arr(<<>>)
           \/ /\ historyFile.kind = "json"
              /\ IsArray(historyFile.json)
              /\ \A i \in 1..Len(historyFile.json.val) : IsString(historyFile.json.val[i])
              /\ jokeHistory' = historyFile.json]_vars

\* The sleeps the claim allows after the requests rs of a call of getDadJoke
\* with m attempts, from request i on: one after each transport failure
\* that is not the last attempt, of min(1000 * attempt, 5000) ms.
RECURSIVE AllowedSleeps(_, _, _)
AllowedSleeps(rs, m, i) ==
  IF i > Len(rs) THEN <<>>
  ELSE (IF TransportFailure(rs[i]) /\ i < m
        THEN <<IF 1000 * i < 5000 THEN 1000 * i ELSE 5000>>
        ELSE <<>>) \o AllowedSleeps(rs, m, i + 1)

\* C16: getDadJoke sleeps only after a transport error or timeout on an
\* attempt before the last one, for min(1000 * attempt, 5000) ms; never after
\* the last attempt, an offensive item or a duplicate.
C16_SleepsOnlyAfterTransportFailure ==
  \A p \in Passes : sleeps[p] = AllowedSleeps(responses[p], maxAttempts[p], 1)

\* ------------------------------------------------------ claims about main
\* C13: in GitHub Actions, with a valid configuration, the process runs
\* exactly one pass and then exits, with status 0 if the pass succeeded and 1
\* if it failed; the cron job is never registered and no second pass starts.
C13_BatchRunsOnePass ==
  (isGitHubActions /\ cronValid) =>
    /\ mainPc # "scheduled"
    /\ \A p \in Passes : p > 1 => pc[p] = "idle"
    /\ pc[1] \in {"ok", "caught"} <=> mainPc = "exited"
    /\ mainPc = "exited" => exitCode = (IF pc[1] = "ok" THEN 0 ELSE 1)
    /\ mainPc # "exited" => exitCode = -1

\* C14: outside GitHub Actions no pass failure ends the process: once a pass
\* has started the process never exits, a failed startup pass is followed by
\* the scheduling phase, and after a failed tick the next tick can run.
C14_ContinuousSurvivesFailures ==
  ~isGitHubActions =>
    /\ (\E p \in Passes : pc[p] # "idle") => (exitCode = -1 /\ mainPc # "exited")
    /\ pc[1] \in {"ok", "caught"} => mainPc = "scheduled"
    /\ \A p \in Passes :
         (/\ pc[p] \in {"failed", "caught"}
          /\ (p > 1 \/ pc[1] = "caught")
          /\ p < MaxPasses
          /\ pc[p + 1] = "idle")
         => ENABLED Tick(p + 1)

\* C14 witness: the startup pass failed, the first tick failed, and the
\* second tick runs its pass.
C14_Witness ==
  /\ ~isGitHubActions /\ exitCode = -1
  /\ pc[1] = "caught" /\ pc[2] = "caught" /\ pc[3] = "fetch"

\* The passes between their start and their completion.
InFlight == {p \in Passes : pc[p] \in {"fetch", "sleep", "fetched", "join", "post"}}

\* C15: at most one invocation of postJokeToSlack is in flight at any moment.
C15_OnePassAtATime ==
  Cardinality(InFlight) <= 1

\* C17: a failed save never fails the pass: the pass still returns, the
\* in-memory Ledger ends with the delivered Item while the file keeps its old
\* content, and in GitHub Actions the process exits with status 0.
C17_SaveFailureNotFatal ==
  [][/\ \A p \in Passes :
          (PostSettled(p) /\ saveResult'[p] = "failed") =>
            /\ pc'[p] = "done"
            /\ IsArray(jokeHistory') /\ Last(jokeHistory'.val) = joke[p]
            /\ historyFile' = historyFile
     /\ (saveResult[1] = "failed" /\ mainPc = "startup" /\ mainPc' # "startup") =>
            IF isGitHubActions
            THEN mainPc' = "exited" /\ exitCode' = 0
            ELSE mainPc' = "scheduled" /\ exitCode' = -1]_vars

\* C17 witness: in GitHub Actions the startup pass has delivered and
\* appended its Item, and the write of the history file has failed.
C17_Witness ==
  /\ isGitHubActions /\ mainPc = "startup"
  /\ pc[1] = "done" /\ postOutcome[1] = "ok" /\ saveResult[1] = "failed"
  /\ IsArray(jokeHistory)
  /\ historyFile # [kind |-> "json", json |-> JSONStringify(jokeHistory)]

\* C18: every pass eventually completes, by returning or by throwing, when
\* the timers fire, and its fetch phase issues at most maxAttempts requests.
C18_EveryPassCompletes ==
  /\ [](\A p \in Passes : calls[p] <= maxAttempts[p])
  /\ \A p \in Passes :
       (p \in InFlight) ~> (pc[p] \in {"done", "failed", "ok", "caught"})

\* C18 witness: no service answered the pass in time (three requests timed
\* out, the join and the post lost their races) and the pass has ended.
C18_Witness ==
  /\ pc[1] = "failed" /\ postOutcome[1] = "timeout"
  /\ postCall[1].latency > SLACK_TIMEOUT_MS

\* C19: the startup pass never overlaps a scheduled pass: a tick's pass
\* starts only when the Ledger has been loaded and the startup pass has
\* completed and main has resumed from it.
C19_StartupBeforeSchedule ==
  \A p \in Passes :
    (p > 1 /\ pc[p] # "idle") =>
      /\ pc[1] \in {"ok", "caught"}
      /\ mainPc = "scheduled"
      /\ 1 \notin InFlight

\* C19 witness: a tick's pass is in flight after a failed startup pass.
C19_Witness ==
  pc[1] = "caught" /\ 2 \in InFlight /\ mainPc = "scheduled"

\* C20: started from a loaded Ledger without repeated entries, the Ledger
\* never holds twice a text that is not in the Fallback Pool.
C20_NoRepeatOutsideFallback ==
  IsArray(jokeHistory) =>
    \A i, j \in 1..Len(jokeHistory.val) :
      (i < j /\ IsString(jokeHistory.val[i])
             /\ jokeHistory.val[i] = jokeHistory.val[j]) =>
        jokeHistory.val[i] \in FallbackPool

\* ------------------------------------------------------ the whole process
Init ==
  /\ historyFile \in HistoryFiles
  /\ jokeHistory = Arr(<<>>)
  /\ mainPc = "start"
  /\ isGitHubActions \in BOOLEAN
  /\ cronValid \in BOOLEAN
  /\ exitCode = -1
  /\ InitLocals

Next ==
  \/ MainStart
  \/ MainAfterStartup
  \/ \E p \in Passes :
       \/ Tick(p)
       \/ FetchSettles(p)
       \/ SleepEnds(p)
       \/ IssueJoin(p)
       \/ JoinSettles(p)
       \/ PostSettles(p)
       \/ TickEnds(p)

Spec == Init /\ [][Next]_vars

\* One step of the pass p: a timer fires or a settled promise's continuation
\* runs.
PassStep(p) ==
  \/ FetchSettles(p)
  \/ SleepEnds(p)
  \/ IssueJoin(p)
  \/ JoinSettles(p)
  \/ PostSettles(p)

\* The passes of the liveness check: the startup pass and the ticks but the
\* last.
LivePasses == 1..(MaxPasses - 1)

NextLive ==
  \/ MainStart
  \/ MainAfterStartup
  \/ \E p \in LivePasses :
       \/ Tick(p)
       \/ TickEnds(p)
       \/ PassStep(p)

\* The process with an event loop that runs every continuation that is due:
\* the axios timeout (100), the sleeps (122) and timeoutPromise (161-163)
\* fire, so a pending step of a pass is eventually taken.  Nothing forces
\* cron to tick.
SpecLive ==
  Init /\ [][NextLive]_vars /\ \A p \in LivePasses : WF_vars(PassStep(p))

====
